---- MODULE Spec2Model ----
(***************************************************************************)
(* QueuedStoreGroup (src/src/QueuedStoreGroup.ts): a group of stores that  *)
(* collects the stores that emitted a change and hands them, as one        *)
(* CHANGE_STORE_GROUP notification, to its onChange subscribers when a     *)
(* dispatched payload asks for it.                                         *)
(*                                                                         *)
(* Arrays are objects with identity: `heap` maps an array reference to the *)
(* array's current contents, so that an array handed to a subscriber and   *)
(* an array mutated in place by the group are told apart.                  *)
(*                                                                         *)
(* Environment of Spec: almin's Dispatcher and Store are EventEmitters     *)
(* (listeners run synchronously, in registration order; removeListener     *)
(* removes the most recently added instance); a store emits its change     *)
(* either on its own or in answer to a payload piped to it; an onChange    *)
(* handler returns normally and does not call back into the group or the   *)
(* stores while it is being notified. SpecThrowing lets a notified handler *)
(* throw; SpecReentrant lets a notified handler make a store emit a change.*)
(***************************************************************************)
EXTENDS Integers, Sequences, FiniteSets, TLC

\* ---------------------------------------------------------------- bounds
\* The onChange registrations between two release() calls.
MaxListeners == 2
\* The emitted snapshot arrays the subscribers still hold.
MaxRetained == 1

\* ------------------------------------------------------------- constants
\* The constructor's `stores` argument: distinct stores, in array order.
stores == <<"A", "B">>

Stores == {stores[i] : i \in 1..Len(stores)}

\* The functions the caller passes to onChange.
Handlers == {"h"}

\* The values `options.asap` can have: omitted, true, false.
AsapOptions == {"undefined", "true", "false"}

defaultOptions == [asap |-> FALSE]

\* Payload classes of almin that reach the group's dispatch listener.
\* "Payload" stands for every payload that is none of the three tested classes.
PayloadTypes == {"Payload", "ErrorPayload", "DidExecutedPayload", "CompletedPayload"}

\* The reference of the array created once by the constructor; the field is
\* never reassigned, the array is only mutated in place.
_currentChangingStores == 1

VARIABLES
    options,              \* options.asap as given to the constructor
    heap,                 \* array reference -> contents, for the arrays still referenced
    _isAnyOneStoreChanged,\* the changed flag (undefined after construction: falsy)
    _releaseHandlers,     \* release handlers, in insertion order
    storeListeners,       \* per store: is the group's change callback subscribed
    dispatchListeners,    \* the group's ON_DISPATCH listeners, in registration order
    changeListeners,      \* the group's CHANGE_STORE_GROUP listeners, in order
    emitted,              \* the arrays of the last MaxRetained CHANGE_STORE_GROUP
                          \*   emissions, each with the contents it was emitted with
    released,             \* history: release() has been called
    changedSince,         \* history: stores whose callback fired since the last
                          \*   emission, in the order of their first change
    changedAgain,         \* history: the stores among them whose callback fired
                          \*   more than once
    reentered,            \* history: stores whose callback fired during a
                          \*   notification, and that no later snapshot has held
    calls,                \* history: per release handler of _releaseHandlers, how
                          \*   often its caller has invoked it
    lastOp                \* history: the operation that has just returned and what
                          \*   it did; Idle once the caller has gone on

vars == <<options, heap, _isAnyOneStoreChanged, _releaseHandlers, storeListeners,
          dispatchListeners, changeListeners, emitted, released, changedSince,
          changedAgain, reentered, calls, lastOp>>

\* ------------------------------------------------------------ array helpers
\* Array.prototype.indexOf: the first index (0-based) of x, or -1.
RECURSIVE IndexFrom(_, _, _)
IndexFrom(arr, x, i) ==
    IF i > Len(arr) THEN -1
    ELSE IF arr[i] = x THEN i - 1
    ELSE IndexFrom(arr, x, i + 1)

indexOf(arr, x) == IndexFrom(arr, x, 1)

\* EventEmitter.removeListener: removes the most recently added instance of l.
RECURSIVE LastIndex(_, _, _)
LastIndex(list, l, i) ==
    IF i = 0 THEN 0
    ELSE IF list[i] = l THEN i
    ELSE LastIndex(list, l, i - 1)

removeListener(list, l) ==
    LET i == LastIndex(list, l, Len(list))
    IN  IF i = 0 THEN list
        ELSE [k \in 1..(Len(list) - 1) |-> IF k < i THEN list[k] ELSE list[k + 1]]

SeqToSet(s) == {s[i] : i \in 1..Len(s)}

\* ------------------------------------------------------------------ options
asap ==
    IF options # "undefined" THEN options = "true" ELSE defaultOptions.asap

\* ------------------------------------------------- the tracker: heap, flag, emissions
\* What the onChange handlers do when this.emit calls them: the handler at
\* position throwsAt throws (0: none does), and the first handler makes the stores
\* of `changes` emit a change before it returns.
Quiet == [throwsAt |-> 0, changes |-> <<>>]

\* A tracker value t is [heap, changed, emitted, handlers, thrown]: the part of
\* the group's state that the store-change callback and emitChange read and write,
\* what the handlers will do when called, and whether an exception is propagating.
Tracker ==
    [heap |-> heap, changed |-> _isAnyOneStoreChanged, emitted |-> emitted,
     handlers |-> Quiet, thrown |-> FALSE]

\* Faulty variant of hasChangingStore: one changing store is not enough.
hasChangingStoreSeveral(t) == Len(t.heap[_currentChangingStores]) > 1

hasChangingStore(t) == Len(t.heap[_currentChangingStores]) # 0

_pruneCurrentChangingStores(t) ==
    [t EXCEPT !.heap[_currentChangingStores] = <<>>]

\* Faulty variants of the callback: without the indexOf test, with unshift for
\* push, without the prune.
onStoreChangeNoDedup(t, store) ==
    LET pruned == IF ~t.changed THEN _pruneCurrentChangingStores(t) ELSE t
        flagged == [pruned EXCEPT !.changed = TRUE]
    IN  [flagged EXCEPT !.heap[_currentChangingStores] = Append(@, store)]

onStoreChangeUnshift(t, store) ==
    LET pruned == IF ~t.changed THEN _pruneCurrentChangingStores(t) ELSE t
        flagged == [pruned EXCEPT !.changed = TRUE]
        isStoreAlreadyChanging ==
            indexOf(flagged.heap[_currentChangingStores], store) # -1
    IN  IF isStoreAlreadyChanging THEN flagged
        ELSE [flagged EXCEPT !.heap[_currentChangingStores] = <<store>> \o @]

onStoreChangeNoPrune(t, store) ==
    LET flagged == [t EXCEPT !.changed = TRUE]
        isStoreAlreadyChanging ==
            indexOf(flagged.heap[_currentChangingStores], store) # -1
    IN  IF isStoreAlreadyChanging THEN flagged
        ELSE [flagged EXCEPT !.heap[_currentChangingStores] = Append(@, store)]

\* Faulty variant of the callback: the indexOf test reads the array before the
\* prune.
onStoreChangeDedupFirst(t, store) ==
    LET isStoreAlreadyChanging ==
            indexOf(t.heap[_currentChangingStores], store) # -1
        pruned == IF ~t.changed THEN _pruneCurrentChangingStores(t) ELSE t
        flagged == [pruned EXCEPT !.changed = TRUE]
    IN  IF isStoreAlreadyChanging THEN flagged
        ELSE [flagged EXCEPT !.heap[_currentChangingStores] = Append(@, store)]

\* The callback _registerStore subscribes to store.onChange.
onStoreChange(t, store) ==
    LET pruned == IF ~t.changed THEN _pruneCurrentChangingStores(t) ELSE t
        flagged == [pruned EXCEPT !.changed = TRUE]
        isStoreAlreadyChanging ==
            indexOf(flagged.heap[_currentChangingStores], store) # -1
    IN  IF isStoreAlreadyChanging THEN flagged
        ELSE [flagged EXCEPT !.heap[_currentChangingStores] = Append(@, store)]

\* The reference a newly created array gets: the first one not in use.
NewRef(h) == CHOOSE r \in 1..(Cardinality(DOMAIN h) + 1) :
                /\ r \notin DOMAIN h
                /\ \A q \in 1..(r - 1) : q \in DOMAIN h

\* Array.prototype.slice(): a new array with the same contents.
\* Gives the heap with the copy in it, at NewRef(h).
slice(h, ref) == [r \in DOMAIN h \cup {NewRef(h)} |-> IF r \in DOMAIN h THEN h[r] ELSE h[ref]]

\* A handler makes stores emit a change while it is being notified: the group's
\* callback runs for each store it is still subscribed to.
RECURSIVE callHandler(_, _, _)
callHandler(t, changes, i) ==
    IF i > Len(changes) THEN t
    ELSE callHandler(IF storeListeners[changes[i]] THEN onStoreChange(t, changes[i]) ELSE t,
                     changes, i + 1)

\* this.emit(CHANGE_STORE_GROUP, changingStores): the listeners are called in
\* order with the array reference, up to and including one that throws; `seen`
\* is the contents the listeners read at that call.
emit(t, ref, listeners) ==
    LET throws == t.handlers.throwsAt \in 1..Len(listeners)
        called == IF throws THEN SubSeq(listeners, 1, t.handlers.throwsAt) ELSE listeners
        noted == [t EXCEPT !.emitted =
                               Append(@, [ref |-> ref, to |-> called, seen |-> t.heap[ref]]),
                           !.thrown = throws]
    IN  IF called = <<>> THEN noted ELSE callHandler(noted, t.handlers.changes, 1)

\* Faulty variants of emitChange: without the flag test, without the copy.
emitChangeNoGuard(t, listeners) ==
    LET copied == [t EXCEPT !.heap = slice(t.heap, _currentChangingStores)]
        changingStores == NewRef(t.heap)
    IN  [emit(copied, changingStores, listeners) EXCEPT !.changed = FALSE]

emitChangeNoSlice(t, listeners) ==
    IF ~t.changed THEN t
    ELSE [emit(t, _currentChangingStores, listeners) EXCEPT !.changed = FALSE]

\* Faulty variant of emitChange: the array is emptied at the flush.
emitChangeEagerPrune(t, listeners) ==
    IF ~t.changed THEN t
    ELSE LET copied == [t EXCEPT !.heap = slice(t.heap, _currentChangingStores)]
             changingStores == NewRef(t.heap)
         IN  [_pruneCurrentChangingStores(emit(copied, changingStores, listeners))
                 EXCEPT !.changed = FALSE]

emitChange(t, listeners) ==
    IF ~t.changed THEN t
    ELSE LET copied == [t EXCEPT !.heap = slice(t.heap, _currentChangingStores)]
             changingStores == NewRef(t.heap)
             notified == emit(copied, changingStores, listeners)
         IN  IF notified.thrown THEN notified
             ELSE [notified EXCEPT !.changed = FALSE]

\* Faulty variants of tryToEmitChange: the completed branch without the parent
\* test; the parent test without asap; the error branch with the parent test; the
\* payload tests before the isTrusted test.
tryToEmitChangeCompletedUnchecked(t, payload, meta, listeners) ==
    IF ~meta.isTrusted THEN
        IF hasChangingStore(t) THEN emitChange(t, listeners) ELSE t
    ELSE IF payload = "ErrorPayload" THEN
        IF hasChangingStore(t) THEN emitChange(t, listeners) ELSE t
    ELSE IF payload = "DidExecutedPayload" THEN
        IF ~asap /\ meta.parentUseCase THEN t
        ELSE IF hasChangingStore(t) THEN emitChange(t, listeners) ELSE t
    ELSE IF payload = "CompletedPayload" THEN
        IF hasChangingStore(t) THEN emitChange(t, listeners) ELSE t
    ELSE t

tryToEmitChangeRootOnly(t, payload, meta, listeners) ==
    IF ~meta.isTrusted THEN
        IF hasChangingStore(t) THEN emitChange(t, listeners) ELSE t
    ELSE IF payload = "ErrorPayload" THEN
        IF hasChangingStore(t) THEN emitChange(t, listeners) ELSE t
    ELSE IF payload = "DidExecutedPayload" THEN
        IF meta.parentUseCase THEN t
        ELSE IF hasChangingStore(t) THEN emitChange(t, listeners) ELSE t
    ELSE IF payload = "CompletedPayload" THEN
        IF meta.parentUseCase THEN t
        ELSE IF hasChangingStore(t) THEN emitChange(t, listeners) ELSE t
    ELSE t

tryToEmitChangeErrorDeferred(t, payload, meta, listeners) ==
    IF ~meta.isTrusted THEN
        IF hasChangingStore(t) THEN emitChange(t, listeners) ELSE t
    ELSE IF payload = "ErrorPayload" THEN
        IF ~asap /\ meta.parentUseCase THEN t
        ELSE IF hasChangingStore(t) THEN emitChange(t, listeners) ELSE t
    ELSE IF payload = "DidExecutedPayload" THEN
        IF ~asap /\ meta.parentUseCase THEN t
        ELSE IF hasChangingStore(t) THEN emitChange(t, listeners) ELSE t
    ELSE IF payload = "CompletedPayload" THEN
        IF ~asap /\ meta.parentUseCase THEN t
        ELSE IF hasChangingStore(t) THEN emitChange(t, listeners) ELSE t
    ELSE t

tryToEmitChangePayloadFirst(t, payload, meta, listeners) ==
    IF payload = "ErrorPayload" THEN
        IF hasChangingStore(t) THEN emitChange(t, listeners) ELSE t
    ELSE IF payload = "DidExecutedPayload" THEN
        IF ~asap /\ meta.parentUseCase THEN t
        ELSE IF hasChangingStore(t) THEN emitChange(t, listeners) ELSE t
    ELSE IF payload = "CompletedPayload" THEN
        IF ~asap /\ meta.parentUseCase THEN t
        ELSE IF hasChangingStore(t) THEN emitChange(t, listeners) ELSE t
    ELSE IF ~meta.isTrusted THEN
        IF hasChangingStore(t) THEN emitChange(t, listeners) ELSE t
    ELSE t

\* Faulty variants of tryToEmitChange: the deferred branch drops the pending
\* changes; a payload of no tested class flushes.
tryToEmitChangeDeferredDrops(t, payload, meta, listeners) ==
    IF ~meta.isTrusted THEN
        IF hasChangingStore(t) THEN emitChange(t, listeners) ELSE t
    ELSE IF payload = "ErrorPayload" THEN
        IF hasChangingStore(t) THEN emitChange(t, listeners) ELSE t
    ELSE IF payload = "DidExecutedPayload" THEN
        IF ~asap /\ meta.parentUseCase THEN _pruneCurrentChangingStores(t)
        ELSE IF hasChangingStore(t) THEN emitChange(t, listeners) ELSE t
    ELSE IF payload = "CompletedPayload" THEN
        IF ~asap /\ meta.parentUseCase THEN _pruneCurrentChangingStores(t)
        ELSE IF hasChangingStore(t) THEN emitChange(t, listeners) ELSE t
    ELSE t

tryToEmitChangeOtherFlushes(t, payload, meta, listeners) ==
    IF ~meta.isTrusted THEN
        IF hasChangingStore(t) THEN emitChange(t, listeners) ELSE t
    ELSE IF payload = "ErrorPayload" THEN
        IF hasChangingStore(t) THEN emitChange(t, listeners) ELSE t
    ELSE IF payload = "DidExecutedPayload" THEN
        IF ~asap /\ meta.parentUseCase THEN t
        ELSE IF hasChangingStore(t) THEN emitChange(t, listeners) ELSE t
    ELSE IF payload = "CompletedPayload" THEN
        IF ~asap /\ meta.parentUseCase THEN t
        ELSE IF hasChangingStore(t) THEN emitChange(t, listeners) ELSE t
    ELSE IF hasChangingStore(t) THEN emitChange(t, listeners) ELSE t

\* The listener the constructor subscribes with this.onDispatch.
tryToEmitChange(t, payload, meta, listeners) ==
    IF ~meta.isTrusted THEN
        IF hasChangingStore(t) THEN emitChange(t, listeners) ELSE t
    ELSE IF payload = "ErrorPayload" THEN
        IF hasChangingStore(t) THEN emitChange(t, listeners) ELSE t
    ELSE IF payload = "DidExecutedPayload" THEN
        IF ~asap /\ meta.parentUseCase THEN t
        ELSE IF hasChangingStore(t) THEN emitChange(t, listeners) ELSE t
    ELSE IF payload = "CompletedPayload" THEN
        IF ~asap /\ meta.parentUseCase THEN t
        ELSE IF hasChangingStore(t) THEN emitChange(t, listeners) ELSE t
    ELSE t

\* --------------------------------------------------- dispatch through the group
\* The pipe(store) listener hands the payload to the store; a store in `reacting`
\* answers it by emitting a change, which runs the group's callback when that
\* callback is still subscribed.
onPipe(t, store, reacting) ==
    IF store \in reacting /\ storeListeners[store] THEN onStoreChange(t, store) ELSE t

\* EventEmitter.emit(ON_DISPATCH, payload, meta): the listeners ls[i..] are called
\* in registration order, until one throws.
RECURSIVE dispatch(_, _, _, _, _, _, _)
dispatch(t, ls, i, payload, meta, reacting, listeners) ==
    IF i > Len(ls) \/ t.thrown THEN t
    ELSE LET l == ls[i]
             next == IF l.kind = "pipe" THEN onPipe(t, l.store, reacting)
                     ELSE tryToEmitChange(t, payload, meta, listeners)
         IN  dispatch(next, ls, i + 1, payload, meta, reacting, listeners)

\* ------------------------------------------------------- subscriptions, teardown
PipeListener(store) == [kind |-> "pipe", store |-> store]
TryToEmitChangeListener == [kind |-> "tryToEmitChange", store |-> "none"]

\* A release handler is the bound removeListener of one subscription.
ReleaseOnChangeHandler(store) == [kind |-> "storeOnChange", arg |-> store]
ReleaseOnDispatchHandler(store) == [kind |-> "pipe", arg |-> store]
UnListenOnDispatch == [kind |-> "onDispatch", arg |-> "none"]
ReleaseHandler(handler) == [kind |-> "onChange", arg |-> handler]

\* The subscriptions a release handler acts on.
Subscriptions ==
    [store |-> storeListeners, onDispatch |-> dispatchListeners,
     onChange |-> changeListeners]

\* Calling one release handler.
callReleaseHandler(sub, rh) ==
    IF rh.kind = "storeOnChange" THEN [sub EXCEPT !.store[rh.arg] = FALSE]
    ELSE IF rh.kind = "pipe" THEN
        [sub EXCEPT !.onDispatch = removeListener(@, PipeListener(rh.arg))]
    ELSE IF rh.kind = "onDispatch" THEN
        [sub EXCEPT !.onDispatch = removeListener(@, TryToEmitChangeListener)]
    ELSE [sub EXCEPT !.onChange = removeListener(@, rh.arg)]

\* this._releaseHandlers.forEach(releaseHandler => releaseHandler())
RECURSIVE forEachRelease(_, _, _)
forEachRelease(sub, rhs, i) ==
    IF i > Len(rhs) THEN sub
    ELSE forEachRelease(callReleaseHandler(sub, rhs[i]), rhs, i + 1)

\* Faulty variant of release: the handlers are dropped without being called.
releaseNoCall(sub, rhs) == sub

release(sub, rhs) == forEachRelease(sub, rhs, 1)

\* _registerStore for stores[i..]: each concatenates its two release handlers.
RECURSIVE registerStores(_, _)
registerStores(rhs, i) ==
    IF i > Len(stores) THEN rhs
    ELSE registerStores(
            rhs \o <<ReleaseOnChangeHandler(stores[i]), ReleaseOnDispatchHandler(stores[i])>>,
            i + 1)

\* ----------------------------------------------------------------- history
Idle ==
    [op |-> "idle", store |-> "none", payload |-> "Payload", isTrusted |-> FALSE,
     parentUseCase |-> FALSE, pending |-> <<>>, again |-> {}, flushes |-> 0,
     to |-> <<>>, flagAt |-> FALSE, arrayAt |-> <<>>, reacted |-> <<>>,
     late |-> <<>>, invoked |-> <<>>, threw |-> FALSE, during |-> <<>>,
     owed |-> {}]

\* The stores that run the group's callback during a dispatch, in order: those
\* piped before the tryToEmitChange listener, and those piped after it.
RECURSIVE FiredIn(_, _, _, _)
FiredIn(ls, i, upto, reacting) ==
    IF i > upto THEN <<>>
    ELSE (IF ls[i].kind = "pipe" /\ ls[i].store \in reacting /\ storeListeners[ls[i].store]
          THEN <<ls[i].store>> ELSE <<>>)
         \o FiredIn(ls, i + 1, upto, reacting)

DecisionIndex(ls) ==
    LET i == LastIndex(ls, TryToEmitChangeListener, Len(ls))
    IN  IF i = 0 THEN Len(ls) + 1 ELSE i

\* changedSince / changedAgain after the callbacks of the stores in `fired` ran.
RECURSIVE NoteChanges(_, _, _)
NoteChanges(since, fired, i) ==
    IF i > Len(fired) THEN since
    ELSE NoteChanges(
            IF fired[i] \in SeqToSet(since) THEN since ELSE Append(since, fired[i]),
            fired, i + 1)

RECURSIVE NoteAgain(_, _, _, _)
NoteAgain(again, since, fired, i) ==
    IF i > Len(fired) THEN again
    ELSE NoteAgain(
            IF fired[i] \in SeqToSet(since) THEN again \cup {fired[i]} ELSE again,
            NoteChanges(since, <<fired[i]>>, 1), fired, i + 1)

\* The subscribers hold the arrays of the last MaxRetained emissions; of the
\* arrays only the group's own and those are kept. References are opaque: the
\* kept arrays are renumbered in emission order, the group's array stays.
Retain(t) ==
    LET n == Len(t.emitted)
        kept == IF n > MaxRetained THEN SubSeq(t.emitted, n - MaxRetained + 1, n)
                ELSE t.emitted
        renumbered(i) == IF kept[i].ref = _currentChangingStores
                         THEN _currentChangingStores ELSE i + 1
        live == {_currentChangingStores} \cup {renumbered(i) : i \in 1..Len(kept)}
        old(r) == IF r = _currentChangingStores THEN r ELSE kept[r - 1].ref
    IN  [heap |-> [r \in live |-> t.heap[old(r)]], changed |-> t.changed,
         emitted |-> [i \in 1..Len(kept) |->
                         [ref |-> renumbered(i), to |-> <<>>, seen |-> kept[i].seen]]]

\* The listeners the emissions of an operation called, emissions in order.
Notified(t) ==
    [i \in 1..(Len(t.emitted) - Len(emitted)) |-> t.emitted[Len(emitted) + i].to]

\* The stores whose callback ran during the notification of an operation: those
\* the first handler made emit a change, when a handler was called at all.
FiredDuring(t, hb) ==
    IF Len(t.emitted) > Len(emitted) /\ t.emitted[Len(t.emitted)].to # <<>>
    THEN SelectSeq(hb.changes, LAMBDA s : storeListeners[s])
    ELSE <<>>

\* `reentered` after an operation: a snapshot settles the stores it holds.
Owed(t, during) ==
    IF Len(t.emitted) > Len(emitted)
    THEN (reentered \ SeqToSet(t.emitted[Len(t.emitted)].seen)) \cup SeqToSet(during)
    ELSE reentered

\* ------------------------------------------------------------------- Init
\* Faulty variant of the constructor: onDispatch before the stores are registered.
constructorDispatchListenersFirst ==
    <<TryToEmitChangeListener>> \o [i \in 1..Len(stores) |-> PipeListener(stores[i])]

\* The ON_DISPATCH listeners the constructor subscribes, in order: a pipe per
\* store (stores.forEach(_registerStore)), then tryToEmitChange (onDispatch).
constructorDispatchListeners ==
    Append([i \in 1..Len(stores) |-> PipeListener(stores[i])], TryToEmitChangeListener)

\* The state the constructor leaves.
Init ==
    /\ options \in AsapOptions
    /\ heap = [r \in {_currentChangingStores} |-> <<>>]
    /\ _isAnyOneStoreChanged = FALSE
    /\ _releaseHandlers = Append(registerStores(<<>>, 1), UnListenOnDispatch)
    /\ storeListeners = [s \in Stores |-> TRUE]
    /\ dispatchListeners = constructorDispatchListeners
    /\ changeListeners = <<>>
    /\ emitted = <<>>
    /\ released = FALSE
    /\ changedSince = <<>>
    /\ changedAgain = {}
    /\ reentered = {}
    /\ calls = [i \in 1..(2 * Len(stores) + 1) |-> 0]
    /\ lastOp = Idle

\* ----------------------------------------------------------------- actions
\* Every operation runs to completion (single thread, no suspension point): it
\* starts when the previous one has returned to its caller.
SetTracker(t) ==
    \E kept \in {Retain(t)} :
        /\ heap' = kept.heap
        /\ _isAnyOneStoreChanged' = kept.changed
        /\ emitted' = kept.emitted

\* A store emits a change (store.emitChange() of almin).
StoreChange(store) ==
    /\ lastOp = Idle
    /\ \E heard \in {storeListeners[store]} :
       \E fired \in {IF heard THEN <<store>> ELSE <<>>} :
       \E since \in {NoteChanges(changedSince, fired, 1)} :
       \E again \in {NoteAgain(changedAgain, changedSince, fired, 1)} :
           /\ SetTracker(IF heard THEN onStoreChange(Tracker, store) ELSE Tracker)
           /\ changedSince' = since
           /\ changedAgain' = again
           /\ lastOp' = [Idle EXCEPT !.op = "storeChange", !.store = store,
                                     !.pending = since, !.again = again]
    /\ UNCHANGED <<options, _releaseHandlers, calls, storeListeners, dispatchListeners,
                   changeListeners, released, reentered>>

\* A payload is dispatched through the group (group.dispatch(payload, meta))
\* while the onChange handlers behave as hb says.
DispatchWith(payload, meta, reacting, hb) ==
    /\ lastOp = Idle
    /\ \E ls \in {dispatchListeners} :
       \E at \in {DecisionIndex(ls)} :
       \E before \in {FiredIn(ls, 1, at - 1, reacting)} :
       \E after \in {FiredIn(ls, at + 1, Len(ls), reacting)} :
       \E tAt \in {dispatch([Tracker EXCEPT !.handlers = hb], SubSeq(ls, 1, at - 1), 1,
                             payload, meta, reacting, changeListeners)} :
       \E t \in {dispatch(tAt, ls, at, payload, meta, reacting, changeListeners)} :
       \E flushes \in {Len(t.emitted) - Len(emitted)} :
       \E sinceAt \in {NoteChanges(changedSince, before, 1)} :
       \E againAt \in {NoteAgain(changedAgain, changedSince, before, 1)} :
       \E during \in {FiredDuring(t, hb)} :
           /\ SetTracker(t)
           /\ changedSince' =
                 NoteChanges(IF flushes > 0 THEN <<>> ELSE sinceAt, during \o after, 1)
           /\ changedAgain' =
                 IF flushes > 0 THEN NoteAgain({}, <<>>, during \o after, 1)
                 ELSE NoteAgain(againAt, sinceAt, during \o after, 1)
           /\ reentered' = Owed(t, during)
           /\ lastOp' = [op |-> "dispatch", store |-> "none", payload |-> payload,
                         isTrusted |-> meta.isTrusted,
                         parentUseCase |-> meta.parentUseCase,
                         pending |-> sinceAt, again |-> againAt, flushes |-> flushes,
                         to |-> Notified(t), flagAt |-> tAt.changed,
                         arrayAt |-> tAt.heap[_currentChangingStores],
                         reacted |-> before, late |-> after, invoked |-> <<>>,
                         threw |-> t.thrown, during |-> during, owed |-> reentered]
    /\ UNCHANGED <<options, _releaseHandlers, calls, storeListeners, dispatchListeners,
                   changeListeners, released>>

\* A payload is dispatched while no handler throws or calls back.
Dispatch(payload, meta, reacting) == DispatchWith(payload, meta, reacting, Quiet)

\* The caller calls group.emitChange() while the onChange handlers behave as hb
\* says.
EmitChangeWith(hb) ==
    /\ lastOp = Idle
    /\ \E t \in {emitChange([Tracker EXCEPT !.handlers = hb], changeListeners)} :
       \E flushes \in {Len(t.emitted) - Len(emitted)} :
       \E during \in {FiredDuring(t, hb)} :
           /\ SetTracker(t)
           /\ changedSince' = IF flushes > 0 THEN NoteChanges(<<>>, during, 1)
                              ELSE changedSince
           /\ changedAgain' = IF flushes > 0 THEN NoteAgain({}, <<>>, during, 1)
                              ELSE changedAgain
           /\ reentered' = Owed(t, during)
           /\ lastOp' = [Idle EXCEPT !.op = "emitChange", !.pending = changedSince,
                                     !.again = changedAgain, !.flushes = flushes,
                                     !.to = Notified(t),
                                     !.flagAt = _isAnyOneStoreChanged,
                                     !.arrayAt = heap[_currentChangingStores],
                                     !.threw = t.thrown, !.during = during,
                                     !.owed = reentered]
    /\ UNCHANGED <<options, _releaseHandlers, calls, storeListeners, dispatchListeners,
                   changeListeners, released>>

\* The caller calls group.emitChange() while no handler throws or calls back.
EmitChange == EmitChangeWith(Quiet)

NumOnChangeHandlers ==
    Cardinality({i \in 1..Len(_releaseHandlers) : _releaseHandlers[i].kind = "onChange"})

\* group.onChange(handler)
OnChange(handler) ==
    /\ lastOp = Idle
    /\ NumOnChangeHandlers < MaxListeners
    /\ changeListeners' = Append(changeListeners, handler)
    /\ _releaseHandlers' = Append(_releaseHandlers, ReleaseHandler(handler))
    /\ calls' = Append(calls, 0)
    /\ lastOp' = [Idle EXCEPT !.op = "onChange"]
    /\ UNCHANGED <<options, heap, _isAnyOneStoreChanged, storeListeners,
                   dispatchListeners, emitted, released, changedSince, changedAgain,
                   reentered>>

\* The caller calls a function onChange(handler) returned, for the first time:
\* the release handler recorded at some index i of _releaseHandlers.
Unsubscribe(handler) ==
    /\ lastOp = Idle
    /\ handler \in SeqToSet(changeListeners)
    /\ \E i \in 1..Len(_releaseHandlers) :
           /\ _releaseHandlers[i] = ReleaseHandler(handler)
           /\ calls[i] = 0
           /\ changeListeners' = callReleaseHandler(Subscriptions, _releaseHandlers[i]).onChange
           /\ calls' = [calls EXCEPT ![i] = @ + 1]
    /\ lastOp' = [Idle EXCEPT !.op = "unsubscribe"]
    /\ UNCHANGED <<options, heap, _isAnyOneStoreChanged, _releaseHandlers, storeListeners,
                   dispatchListeners, emitted, released, changedSince, changedAgain,
                   reentered>>

\* group.release()
Release ==
    /\ lastOp = Idle
    /\ \E sub \in {release(Subscriptions, _releaseHandlers)} :
           /\ storeListeners' = sub.store
           /\ dispatchListeners' = sub.onDispatch
           /\ changeListeners' = sub.onChange
    /\ _releaseHandlers' = <<>>
    /\ calls' = <<>>
    /\ released' = TRUE
    /\ lastOp' = [Idle EXCEPT !.op = "release",
                              !.invoked = [i \in 1..Len(calls) |-> calls[i] + 1]]
    /\ UNCHANGED <<options, heap, _isAnyOneStoreChanged, emitted, changedSince,
                   changedAgain, reentered>>

\* The operation that ran returns to its caller.
Return ==
    /\ lastOp # Idle
    /\ lastOp' = Idle
    /\ UNCHANGED <<options, heap, _isAnyOneStoreChanged, _releaseHandlers, storeListeners,
                   dispatchListeners, changeListeners, emitted, released, changedSince,
                   changedAgain, reentered, calls>>

Metas == [isTrusted : BOOLEAN, parentUseCase : BOOLEAN]

Next ==
    \/ \E store \in Stores : StoreChange(store)
    \/ \E payload \in PayloadTypes, meta \in Metas, reacting \in SUBSET Stores :
          Dispatch(payload, meta, reacting)
    \/ EmitChange
    \/ \E handler \in Handlers : OnChange(handler)
    \/ \E handler \in Handlers : Unsubscribe(handler)
    \/ Release
    \/ Return

Spec == Init /\ [][Next]_vars

\* ------------------------------------------------ handlers that throw
\* One of the handlers being notified throws.
Throwing == [throwsAt : 0..Len(changeListeners), changes : {<<>>}]

NextThrowing ==
    \/ \E store \in Stores : StoreChange(store)
    \/ \E payload \in PayloadTypes, meta \in Metas, reacting \in SUBSET Stores :
          \E hb \in Throwing : DispatchWith(payload, meta, reacting, hb)
    \/ \E hb \in Throwing : EmitChangeWith(hb)
    \/ \E handler \in Handlers : OnChange(handler)
    \/ \E handler \in Handlers : Unsubscribe(handler)
    \/ Release
    \/ Return

SpecThrowing == Init /\ [][NextThrowing]_vars

\* ------------------------------------- handlers that make a store change
\* The first handler being notified makes one store emit a change
\* (store.emitChange() from inside an onChange handler).
Reentering == [throwsAt : {0}, changes : {<<>>} \cup {<<store>> : store \in Stores}]

NextReentrant ==
    \/ \E store \in Stores : StoreChange(store)
    \/ \E payload \in PayloadTypes, meta \in Metas, reacting \in SUBSET Stores :
          \E hb \in Reentering : DispatchWith(payload, meta, reacting, hb)
    \/ \E hb \in Reentering : EmitChangeWith(hb)
    \/ \E handler \in Handlers : OnChange(handler)
    \/ \E handler \in Handlers : Unsubscribe(handler)
    \/ Release
    \/ Return

SpecReentrant == Init /\ [][NextReentrant]_vars

\* ================================================================== claims
LastEmission == emitted[Len(emitted)]

NoDuplicates(arr) == \A i, j \in 1..Len(arr) : i # j => arr[i] # arr[j]

Occurrences(arr, x) == Cardinality({i \in 1..Len(arr) : arr[i] = x})

\* 1-based position of x in arr, 0 when absent.
Position(arr, x) == indexOf(arr, x) + 1

\* The last operation asked for a flush: emitChange() itself or a dispatched payload.
FlushTrigger == lastOp.op \in {"emitChange", "dispatch"}

\* The last operation was a dispatched payload of one of the given kinds.
Dispatched(payloads, trusted, parents) ==
    /\ lastOp.op = "dispatch"
    /\ lastOp.payload \in payloads
    /\ lastOp.isTrusted \in trusted
    /\ lastOp.parentUseCase \in parents

Completion == {"DidExecutedPayload", "CompletedPayload"}

\* C1 (Dedup): the changing-store array never holds a store twice, no emitted
\* snapshot does, and a store whose callback fired more than once before a flush
\* is exactly once in that flush's snapshot.
C1_Dedup ==
    /\ NoDuplicates(heap[_currentChangingStores])
    /\ \A i \in 1..Len(emitted) : NoDuplicates(emitted[i].seen)
    /\ lastOp.flushes > 0 =>
          \A s \in lastOp.again : Occurrences(LastEmission.seen, s) = 1

C1_Witness ==
    /\ lastOp.flushes = 1
    /\ lastOp.again # {}
    /\ lastOp.to[1] # <<>>

\* C2 (Coalescing across stores): the snapshot of a flush holds every store that
\* changed since the previous flush, in the order of their first change.
C2_Coalescing ==
    lastOp.flushes > 0 =>
        \A i, j \in 1..Len(lastOp.pending) :
            i <= j =>
                /\ Position(LastEmission.seen, lastOp.pending[i]) > 0
                /\ Position(LastEmission.seen, lastOp.pending[i])
                      <= Position(LastEmission.seen, lastOp.pending[j])

\* Both stores changed once, the second store of the group first.
C2_Witness ==
    /\ lastOp.flushes = 1
    /\ lastOp.pending = <<stores[2], stores[1]>>
    /\ lastOp.again = {}
    /\ lastOp.to[1] # <<>>

\* C3 (No-op flush): a flush trigger, emitChange() or any dispatched payload, emits
\* nothing when no store changed since the last flush or since construction.
C3_NoOpFlush ==
    (FlushTrigger /\ lastOp.pending = <<>>) => lastOp.flushes = 0

\* A payload that flushes pending changes arrives right after a flush, while the
\* array still holds the flushed stores and a subscriber listens.
C3_Witness ==
    /\ Dispatched(PayloadTypes, {FALSE}, BOOLEAN)
    /\ lastOp.pending = <<>>
    /\ ~released
    /\ emitted # <<>>
    /\ hasChangingStore(Tracker)
    /\ changeListeners # <<>>

C5_ImmediateFlush ==
    (asap /\ ~released /\ Dispatched(Completion, {TRUE}, {TRUE})
          /\ lastOp.pending # <<>>)
      => (lastOp.flushes = 1 /\ lastOp.to = <<changeListeners>>)

C5_Witness ==
    /\ asap
    /\ Dispatched({"DidExecutedPayload"}, {TRUE}, {TRUE})
    /\ lastOp.flushes = 1
    /\ lastOp.to[1] # <<>>

\* C6 (Error-triggers-flush): a trusted error payload that arrives before
\* release(), when a store changed since the last flush, emits one notification,
\* whatever asap and the parent use case are.
C6_ErrorFlush ==
    (~released /\ Dispatched({"ErrorPayload"}, {TRUE}, BOOLEAN)
               /\ lastOp.pending # <<>>)
      => (lastOp.flushes = 1 /\ lastOp.to = <<changeListeners>>)

\* The error of a child use case under asap false.
C6_Witness ==
    /\ ~asap
    /\ Dispatched({"ErrorPayload"}, {TRUE}, {TRUE})
    /\ lastOp.flushes = 1
    /\ lastOp.to[1] # <<>>

\* C7 (User-event flush): a payload that is not trusted and arrives before
\* release(), when a store changed since the last flush, emits one notification,
\* whatever its class, asap and the parent use case are.
C7_UserEventFlush ==
    (~released /\ Dispatched(PayloadTypes, {FALSE}, BOOLEAN)
               /\ lastOp.pending # <<>>)
      => (lastOp.flushes = 1 /\ lastOp.to = <<changeListeners>>)

\* An untrusted completed payload with a parent under asap false: the trusted one
\* would be deferred.
C7_Witness ==
    /\ ~asap
    /\ Dispatched({"CompletedPayload"}, {FALSE}, {TRUE})
    /\ lastOp.flushes = 1
    /\ lastOp.to[1] # <<>>

\* C8 (Teardown): release() leaves no subscription, and after it no store change
\* and no dispatched payload emits a notification.
C8_Teardown ==
    /\ lastOp.op = "release" =>
          /\ changeListeners = <<>>
          /\ dispatchListeners = <<>>
          /\ \A s \in Stores : ~storeListeners[s]
    /\ (released /\ lastOp.op \in {"storeChange", "dispatch"}) => lastOp.flushes = 0

\* Changes were pending at release(), a subscriber registered afterwards, and an
\* untrusted payload reacted to by a store is dispatched.
C8_Witness ==
    /\ released
    /\ Dispatched(PayloadTypes, {FALSE}, BOOLEAN)
    /\ _isAnyOneStoreChanged
    /\ hasChangingStore(Tracker)
    /\ changeListeners # <<>>

\* C9 (Snapshot immutability): the array a flush handed to the subscribers is not
\* the group's own array and keeps the contents it had when it was handed over.
C9_SnapshotImmutable ==
    \A i \in 1..Len(emitted) :
        /\ emitted[i].ref # _currentChangingStores
        /\ heap[emitted[i].ref] = emitted[i].seen

\* A store changed after a flush, and the group's array differs from the snapshot.
C9_Witness ==
    /\ emitted # <<>>
    /\ lastOp.op = "storeChange"
    /\ heap[_currentChangingStores] # LastEmission.seen

\* C10 (Snapshot exactness): a flush's snapshot holds exactly the stores whose
\* callback fired since the previous flush, and while the flag is true the array
\* holds exactly those stores.
C10_SnapshotExact ==
    /\ lastOp.flushes > 0 => SeqToSet(LastEmission.seen) = SeqToSet(lastOp.pending)
    /\ _isAnyOneStoreChanged =>
          SeqToSet(heap[_currentChangingStores]) = SeqToSet(changedSince)

\* Store 1 was flushed, then store 2 changed: the array holds store 2 alone.
C10_Witness ==
    /\ lastOp.op = "storeChange"
    /\ emitted # <<>>
    /\ LastEmission.seen = <<stores[1]>>
    /\ _isAnyOneStoreChanged
    /\ heap[_currentChangingStores] = <<stores[2]>>

\* C11 (Flag-driven change query): hasChangingStore answers what the changed
\* flag says; in particular it is false in every state in which no store has
\* changed since the last flush.
C11_FlagDrivenQuery == hasChangingStore(Tracker) = _isAnyOneStoreChanged

\* C12 (Lazy prune): a flush resets the flag and leaves the changing-store array
\* as it was; the array keeps the flushed stores while the flag is false; the
\* first store-change callback after the flush leaves that store alone in it.
C12_LazyPrune ==
    /\ (FlushTrigger /\ lastOp.flushes > 0) =>
          /\ ~_isAnyOneStoreChanged
          /\ heap[_currentChangingStores] = lastOp.pending
          /\ heap[_currentChangingStores] = LastEmission.seen
    /\ (~_isAnyOneStoreChanged /\ emitted # <<>>) =>
          heap[_currentChangingStores] = LastEmission.seen
    /\ (lastOp.op = "storeChange" /\ storeListeners[lastOp.store]
          /\ lastOp.pending = <<lastOp.store>>) =>
          heap[_currentChangingStores] = <<lastOp.store>>

C12_Witness ==
    /\ lastOp.op = "emitChange"
    /\ lastOp.flushes = 1
    /\ lastOp.to[1] # <<>>
    /\ ~_isAnyOneStoreChanged
    /\ heap[_currentChangingStores] = <<stores[2], stores[1]>>

\* The last dispatch left the flag and the changing-store array as they were when
\* the group's dispatch listener was called, and notified nobody.
DecidedNothing ==
    /\ lastOp.flushes = 0
    /\ lastOp.to = <<>>
    /\ _isAnyOneStoreChanged = lastOp.flagAt
    /\ heap[_currentChangingStores] = lastOp.arrayAt
    /\ changedSince = lastOp.pending
    /\ lastOp.pending # <<>> => _isAnyOneStoreChanged

\* C13 (Deferred nested completion): with asap false, a trusted did-execute or
\* completed payload with a parent use case notifies nobody and leaves the flag
\* and the changing-store array unchanged; the pending changes stay pending.
C13_DeferredNestedCompletion ==
    (~asap /\ Dispatched(Completion, {TRUE}, {TRUE})) => DecidedNothing

C13_Witness ==
    /\ options = "false"
    /\ Dispatched({"DidExecutedPayload"}, {TRUE}, {TRUE})
    /\ ~released
    /\ changeListeners # <<>>
    /\ lastOp.pending = <<stores[1], stores[2]>>
    /\ lastOp.arrayAt = <<stores[1], stores[2]>>
    /\ _isAnyOneStoreChanged

\* C14 (Other event kinds): a trusted payload that is neither an error, a
\* did-execute nor a completed payload notifies nobody and leaves the flag and the
\* changing-store array unchanged, also when store changes are pending.
C14_OtherEventKinds ==
    Dispatched({"Payload"}, {TRUE}, BOOLEAN) => DecidedNothing

C14_Witness ==
    /\ Dispatched({"Payload"}, {TRUE}, {FALSE})
    /\ ~released
    /\ changeListeners # <<>>
    /\ lastOp.pending # <<>>
    /\ lastOp.flagAt
    /\ _isAnyOneStoreChanged
    /\ hasChangingStore(Tracker)

\* The last operation was a dispatched payload that tryToEmitChange answers with
\* a flush when changes are pending.
FlushingEvent ==
    /\ lastOp.op = "dispatch"
    /\ \/ ~lastOp.isTrusted
       \/ lastOp.payload = "ErrorPayload"
       \/ lastOp.payload \in Completion /\ (asap \/ ~lastOp.parentUseCase)

\* C15 (Change-before-decision ordering): within one dispatch every store-change
\* callback the payload causes runs before the group's dispatch listener decides,
\* so a store that changes in answer to a flushing payload is in the snapshot
\* that payload flushes.
C15_ChangeBeforeDecision ==
    /\ lastOp.op = "dispatch" => lastOp.late = <<>>
    /\ (FlushingEvent /\ ~released /\ lastOp.reacted # <<>>) =>
          /\ lastOp.flushes = 1
          /\ SeqToSet(lastOp.reacted) \subseteq SeqToSet(LastEmission.seen)
          /\ SeqToSet(lastOp.reacted) \subseteq SeqToSet(lastOp.arrayAt)

C15_Witness ==
    /\ Dispatched({"CompletedPayload"}, {TRUE}, {FALSE})
    /\ ~asap
    /\ lastOp.reacted = <<stores[2]>>
    /\ lastOp.pending = <<stores[2]>>
    /\ lastOp.flushes = 1
    /\ lastOp.to[1] # <<>>
    /\ LastEmission.seen = <<stores[2]>>

\* C18 (No lost change): before release(), when a flushing payload is processed
\* with store changes pending, the subscribers are notified during that payload
\* with a snapshot that holds every pending store, and nothing stays pending.
C18_NoLostChange ==
    (FlushingEvent /\ ~released) =>
        /\ lastOp.pending # <<>> =>
              /\ lastOp.flushes = 1
              /\ lastOp.to = <<changeListeners>>
              /\ SeqToSet(lastOp.pending) \subseteq SeqToSet(LastEmission.seen)
        /\ changedSince = <<>>
        /\ ~_isAnyOneStoreChanged

C18_Witness ==
    /\ Dispatched({"DidExecutedPayload"}, {TRUE}, {FALSE})
    /\ ~asap
    /\ ~released
    /\ lastOp.reacted = <<>>
    /\ lastOp.pending = <<stores[1], stores[2]>>
    /\ lastOp.again = {stores[1]}
    /\ lastOp.flushes = 1
    /\ lastOp.to[1] # <<>>

\* C20 (Non-empty snapshots): whenever the flag is true the changing-store array
\* holds at least one store, and every array handed to the subscribers holds at
\* least one store.
C20_NonEmptySnapshots ==
    /\ _isAnyOneStoreChanged => Len(heap[_currentChangingStores]) > 0
    /\ \A i \in 1..Len(emitted) : Len(emitted[i].seen) > 0
    /\ (lastOp.op = "dispatch" /\ lastOp.flushes > 0) => Len(lastOp.arrayAt) > 0

C20_Witness ==
    /\ lastOp.op = "storeChange"
    /\ lastOp.store = stores[1]
    /\ emitted # <<>>
    /\ LastEmission.seen = <<stores[1], stores[2]>>
    /\ _isAnyOneStoreChanged
    /\ heap[_currentChangingStores] = <<stores[1]>>

\* C17 (Release handlers run exactly once): no recorded release handler has been
\* invoked more than once, and when release() returns every handler that was
\* recorded has been invoked exactly once in total.
C17_ReleaseHandlersOnce ==
    /\ \A i \in 1..Len(calls) : calls[i] <= 1
    /\ lastOp.op = "release" =>
          \A i \in 1..Len(lastOp.invoked) : lastOp.invoked[i] = 1

\* C16 (Flush atomicity): a flush either notifies every subscriber with a copy
\* of the whole changing-store array and resets the flag, or notifies nobody and
\* leaves the flag and the array as they were; also when a handler throws.
C16_FlushAtomic ==
    FlushTrigger =>
        \/ /\ lastOp.flushes = 1
           /\ lastOp.to = <<changeListeners>>
           /\ LastEmission.seen = lastOp.arrayAt
           /\ ~_isAnyOneStoreChanged
        \/ /\ lastOp.flushes = 0
           /\ lastOp.to = <<>>
           /\ _isAnyOneStoreChanged = lastOp.flagAt
           /\ heap[_currentChangingStores] = lastOp.arrayAt

\* C19 (Re-entrant change is not lost): before release(), a store whose callback
\* fired during a notification is in the snapshot of a flush by the time the
\* next flushing payload has been processed.
C19_ReentrantChangeDelivered ==
    (FlushingEvent /\ ~released /\ lastOp.owed # {}) =>
        /\ lastOp.flushes >= 1
        /\ lastOp.owed \subseteq SeqToSet(LastEmission.seen)
====
